---- MODULE Spec2Model ----
(***************************************************************************)
(* Model of the statistical cleaner of src/src/data_profiler.py:           *)
(* detect_outliers_zscore (Z-score outlier detection) and clean_data       *)
(* (imputation, detection, row filter), applied to in-memory data frames.  *)
(*                                                                         *)
(* A data frame is column oriented, as in pandas:                          *)
(*   [columns : sequence of names, dtypes : name -> dtype,                 *)
(*    index : sequence of row labels, data : name -> sequence of cells]    *)
(* A cell is a record [t, n, d]: t = "num" is the rational n/d (d > 0, in  *)
(* lowest terms), t = "nan" is a missing value, t = "str" is the text      *)
(* value number n of an object column.  Floating point is modelled by      *)
(* exact rational arithmetic; since no square root is taken, a Z-score z   *)
(* is carried as its square z^2 and |z| > threshold is decided on squares. *)
(***************************************************************************)
EXTENDS Integers, Sequences, FiniteSets, TLC

VARIABLES df, call, result, reused, memo, fs, io, written, run

vars == <<df, call, result, reused, memo, fs, io, written, run>>

\* the caller of the profiler, and the files of the project
profiler_vars == <<df, call, result, reused, memo>>

file_vars == <<fs, io, written, run>>

\* Largest number of rows of the small data frames drawn in Init.
MaxRows == 3

\* Largest number of distinct files written by save_cleaned_data.
MaxSaves == 2

-----------------------------------------------------------------------------
(* Cells and exact arithmetic *)

NaN == [t |-> "nan", n |-> 0, d |-> 1]

Str(k) == [t |-> "str", n |-> k, d |-> 1]

\* pandas isna / numpy isnan
IsNa(v) == v.t = "nan"

Abs(x) == IF x < 0 THEN -x ELSE x

RECURSIVE GCD(_, _)
GCD(a, b) == IF b = 0 THEN a ELSE GCD(b, a % b)

\* the rational n/d (d # 0) in lowest terms with a positive denominator
Rat(n, d) ==
    LET s == IF d < 0 THEN -1 ELSE 1
        g == GCD(Abs(n), Abs(d))
    IN  [t |-> "num", n |-> (s * n) \div g, d |-> (s * d) \div g]

Num(k) == Rat(k, 1)

RAdd(x, y) == Rat(x.n * y.d + y.n * x.d, x.d * y.d)

RSub(x, y) == Rat(x.n * y.d - y.n * x.d, x.d * y.d)

RMul(x, y) == Rat(x.n * y.n, x.d * y.d)

\* x / y for y # 0
RDiv(x, y) == Rat(x.n * y.d, x.d * y.n)

RLess(x, y) == x.n * y.d < y.n * x.d

RLeq(x, y) == x.n * y.d <= y.n * x.d

SeqToSet(s) == {s[i] : i \in 1..Len(s)}

\* an array with every element evaluated once
Array(f) == SelectSeq(f, LAMBDA v : TRUE)

\* pandas skipna=True: the non-missing entries of a column, in order
SkipNa(xs) == SelectSeq(xs, LAMBDA v : ~IsNa(v))

\* the exact sum of an array of numbers (summed by halves)
RECURSIVE SumSeq(_)
SumSeq(xs) ==
    IF Len(xs) = 0 THEN Num(0)
    ELSE IF Len(xs) = 1 THEN xs[1]
    ELSE LET h == Len(xs) \div 2
         IN  RAdd(SumSeq(SubSeq(xs, 1, h)), SumSeq(SubSeq(xs, h + 1, Len(xs))))

-----------------------------------------------------------------------------
(* pandas reductions used by clean_data *)

\* Series.mean(skipna=True): NaN for a column with no value
ColumnMean(xs) ==
    LET ys == SkipNa(xs)
    IN  IF ys = <<>> THEN NaN ELSE RDiv(SumSeq(ys), Num(Len(ys)))

\* the k-th smallest of the values ys (1 <= k <= Len(ys)), by selection
KthSmallest(ys, k) ==
    LET below(v) == Len(SelectSeq(ys, LAMBDA y : RLess(y, v)))
        upto(v)  == Len(SelectSeq(ys, LAMBDA y : RLeq(y, v)))
    IN  ys[CHOOSE i \in 1..Len(ys) : below(ys[i]) < k /\ k <= upto(ys[i])]

\* Series.median(skipna=True): the middle value in sorted order, the mean of
\* the two middle ones for an even count, NaN for a column with no value
ColumnMedian(xs) ==
    LET ys == SkipNa(xs)
        k  == Len(ys)
    IN  IF k = 0 THEN NaN
        ELSE IF k % 2 = 1 THEN KthSmallest(ys, (k + 1) \div 2)
        ELSE RDiv(RAdd(KthSmallest(ys, k \div 2),
                       KthSmallest(ys, k \div 2 + 1)), Num(2))

\* a plausible slip: fillna(value, limit=1), which fills the first gap only
FillColumnLimit1(xs, fill) ==
    IF IsNa(fill) THEN xs
    ELSE Array([i \in 1..Len(xs) |->
                  IF IsNa(xs[i]) /\ (\A j \in 1..(i - 1) : ~IsNa(xs[j]))
                  THEN fill ELSE xs[i]])

\* one column of DataFrame.fillna(value): a NaN fill value fills nothing
FillColumn(xs, fill) ==
    IF IsNa(fill) THEN xs
    ELSE Array([i \in 1..Len(xs) |-> IF IsNa(xs[i]) THEN fill ELSE xs[i]])

-----------------------------------------------------------------------------
(* scipy.stats.zscore(a, nan_policy='omit'), axis 0, ddof 0 *)

\* a plausible slip: missing values counted as zero (np.nan_to_num)
NanAsZero(xs) == Array([i \in 1..Len(xs) |-> IF IsNa(xs[i]) THEN Num(0) ELSE xs[i]])

\* nan_policy='omit': the entries of a column that are not NaN, in order
OmitNaN(xs) == SelectSeq(xs, LAMBDA v : ~IsNa(v))

\* np.nanmean of one column
NanMean(xs) ==
    LET ys == OmitNaN(xs)
    IN  IF ys = <<>> THEN NaN ELSE RDiv(SumSeq(ys), Num(Len(ys)))

\* np.nanvar of one column (ddof = 0): mean of the squared deviations
NanVar(xs) ==
    LET ys == OmitNaN(xs)
        mn == NanMean(xs)
        sq == Array([i \in 1..Len(ys) |->
                        RMul(RSub(ys[i], mn), RSub(ys[i], mn))])
    IN  IF ys = <<>> THEN NaN ELSE RDiv(SumSeq(sq), Num(Len(ys)))

\* scipy _isconst: no value at all, or all values equal
IsConst(xs) ==
    LET ys == OmitNaN(xs)
    IN  ys = <<>> \/ \A i \in 1..Len(ys) : ys[i] = ys[1]

\* the squared Z-scores of one column: NaN for a missing cell and for every
\* cell of a constant column
ZScoreSq(xs) ==
    LET mn  == NanMean(xs)
        var == NanVar(xs)
    IN  IF IsConst(xs) THEN [i \in 1..Len(xs) |-> NaN]
        ELSE Array([i \in 1..Len(xs) |->
                IF IsNa(xs[i]) THEN NaN
                ELSE RDiv(RMul(RSub(xs[i], mn), RSub(xs[i], mn)), var)])

\* a plausible slip: >= for >
AbsGreaterEq(zsq, threshold) ==
    /\ ~IsNa(zsq)
    /\ \/ threshold.n < 0
       \/ RLeq(RMul(threshold, threshold), zsq)

\* a plausible slip: the test written as "not (|z| <= threshold)", which a
\* NaN passes
AbsNotLeq(zsq, threshold) ==
    \/ IsNa(zsq)
    \/ threshold.n < 0
    \/ RLess(RMul(threshold, threshold), zsq)

\* a plausible slip: < for >
AbsLess(zsq, threshold) ==
    /\ ~IsNa(zsq)
    /\ threshold.n >= 0
    /\ RLess(zsq, RMul(threshold, threshold))

\* np.abs(z) > threshold on one cell; a NaN compares false
AbsGreater(zsq, threshold) ==
    /\ ~IsNa(zsq)
    /\ \/ threshold.n < 0
       \/ RLess(RMul(threshold, threshold), zsq)

-----------------------------------------------------------------------------
(* Data frames *)

Rows(frame) == Len(frame.index)

\* df.select_dtypes(include=[np.number]).columns.tolist()
NumericColumns(frame) ==
    SelectSeq(frame.columns, LAMBDA c : frame.dtypes[c] = "float64")

\* a plausible slip: the flagged rows handed back last row first (as after a
\* descending sort)
KeptDescending(mask) ==
    LET up == SelectSeq([i \in 1..Len(mask) |-> i], LAMBDA i : mask[i])
    IN  [k \in 1..Len(up) |-> up[Len(up) + 1 - k]]

\* the positions a boolean mask keeps, in increasing order
Kept(mask) == SelectSeq([i \in 1..Len(mask) |-> i], LAMBDA i : mask[i])

\* df[mask] for a boolean array: the rows whose flag is true, order kept
BoolIndex(frame, mask) ==
    LET keep == Kept(mask)
    IN  [frame EXCEPT
           !.index = [k \in 1..Len(keep) |-> frame.index[keep[k]]],
           !.data  = [c \in DOMAIN frame.data |->
                        [k \in 1..Len(keep) |-> frame.data[c][keep[k]]]]]

\* a plausible slip: df_clean[outlier_mask] for df_clean[~outlier_mask]
NegateForgotten(mask) == mask

\* ~outlier_mask
Negate(mask) == [i \in 1..Len(mask) |-> ~mask[i]]

\* a plausible slip: len(outlier_mask) for outlier_mask.sum()
CountAll(mask) == Len(mask)

\* outlier_mask.sum()
CountTrue(mask) == Len(SelectSeq(mask, LAMBDA b : b))

\* (z_scores > threshold).any(axis=1)
AnyAxis1(z, threshold, nrows) ==
    Array([i \in 1..nrows |->
             \E k \in 1..Len(z) : AbsGreater(z[k][i], threshold)])

\* an exception propagated to the caller: nothing is returned
Raise(exc) == [status |-> exc]

\* df[columns] raises KeyError for a name that is no column; arithmetic on an
\* object column raises TypeError
SelectionError(frame, cols) ==
    IF ~(SeqToSet(cols) \subseteq SeqToSet(frame.columns)) THEN "KeyError"
    ELSE IF \E c \in SeqToSet(cols) : frame.dtypes[c] # "float64" THEN "TypeError"
    ELSE "ok"

\* a plausible slip: names that are no column dropped from the selection
\* (as run_eda does before it calls clean_data) instead of raising
detect_ignoring_unknown(frame, columns, threshold) ==
    LET given == IF columns.given THEN columns.names ELSE NumericColumns(frame)
        cols == SelectSeq(given, LAMBDA c : c \in SeqToSet(frame.columns))
        z    == Array([k \in 1..Len(cols) |-> ZScoreSq(frame.data[cols[k]])])
        outlier_mask == AnyAxis1(z, threshold, Rows(frame))
    IN  IF SelectionError(frame, cols) # "ok"
        THEN Raise(SelectionError(frame, cols))
        ELSE [status           |-> "ok",
              outlier_mask     |-> outlier_mask,
              outlier_count    |-> CountTrue(outlier_mask),
              outlier_rows     |-> BoolIndex(frame, outlier_mask),
              columns_analyzed |-> cols]

\* a plausible slip: "if not columns" for "if columns is None", so that an
\* empty selection falls back to every numeric column
detect_empty_as_default(frame, columns, threshold) ==
    LET cols == IF columns.given /\ columns.names # <<>> THEN columns.names
                ELSE NumericColumns(frame)
        z    == Array([k \in 1..Len(cols) |-> ZScoreSq(frame.data[cols[k]])])
        outlier_mask == AnyAxis1(z, threshold, Rows(frame))
    IN  IF SelectionError(frame, cols) # "ok"
        THEN Raise(SelectionError(frame, cols))
        ELSE [status           |-> "ok",
              outlier_mask     |-> outlier_mask,
              outlier_count    |-> CountTrue(outlier_mask),
              outlier_rows     |-> BoolIndex(frame, outlier_mask),
              columns_analyzed |-> cols]

detect_outliers_zscore(frame, columns, threshold) ==
    LET cols == IF columns.given THEN columns.names ELSE NumericColumns(frame)
        z    == Array([k \in 1..Len(cols) |-> ZScoreSq(frame.data[cols[k]])])
        outlier_mask == AnyAxis1(z, threshold, Rows(frame))
    IN  IF SelectionError(frame, cols) # "ok"
        THEN Raise(SelectionError(frame, cols))
        ELSE [status           |-> "ok",
              outlier_mask     |-> outlier_mask,
              outlier_count    |-> CountTrue(outlier_mask),
              outlier_rows     |-> BoolIndex(frame, outlier_mask),
              columns_analyzed |-> cols]

\* the fill statistic of one column for a fill method; 'mode' (and any other
\* string) matches neither branch of clean_data, so nothing is filled
FillValue(xs, fill_method) ==
    IF fill_method = "median" THEN ColumnMedian(xs)
    ELSE IF fill_method = "mean" THEN ColumnMean(xs)
    ELSE NaN

\* a plausible slip: df_clean = df_clean[numeric_cols].fillna(<statistic>),
\* which keeps the selected columns only
ImputeSelectedOnly(frame, cols, fill_method) ==
    [columns |-> cols,
     dtypes  |-> [c \in SeqToSet(cols) |-> frame.dtypes[c]],
     index   |-> frame.index,
     data    |-> [c \in SeqToSet(cols) |->
                    FillColumn(frame.data[c], FillValue(frame.data[c], fill_method))]]

\* a plausible slip: df_clean = df_clean.fillna(df_clean.median()), which
\* fills every numeric column, selected or not
ImputeAllNumeric(frame, cols, fill_method) ==
    [frame EXCEPT !.data =
        [c \in DOMAIN frame.data |->
            IF frame.dtypes[c] = "float64"
            THEN FillColumn(frame.data[c], FillValue(frame.data[c], fill_method))
            ELSE frame.data[c]]]

\* df_clean[numeric_cols] = df_clean[numeric_cols].fillna(<statistic>)
Impute(frame, cols, fill_method) ==
    [frame EXCEPT !.data =
        [c \in DOMAIN frame.data |->
            IF c \in SeqToSet(cols)
            THEN FillColumn(frame.data[c], FillValue(frame.data[c], fill_method))
            ELSE frame.data[c]]]

\* a plausible slip: df_clean = df for df_clean = df.copy(), so that the
\* imputation writes the caller's frame
CallerFrameWrittenInPlace(frame, imputed) == imputed

\* the frame the caller still holds after clean_data: clean_data works on
\* df.copy(), so the argument is not written
CallerFrameAfterClean(frame, imputed) == frame

\* a plausible slip: the Z-scores taken on the raw frame, the filter applied
\* to the imputed one
clean_data_scoring_raw(frame, numeric_cols, outlier_threshold, fill_method) ==
    LET cols == IF numeric_cols.given THEN numeric_cols.names
                ELSE NumericColumns(frame)
        imputed == Impute(frame, cols, fill_method)
        outlier_info ==
            detect_outliers_zscore(frame, [given |-> TRUE, names |-> cols],
                                   outlier_threshold)
        df_clean == BoolIndex(imputed, Negate(outlier_info.outlier_mask))
    IN  IF SelectionError(frame, cols) # "ok"
        THEN Raise(SelectionError(frame, cols))
        ELSE [status       |-> "ok",
              imputed      |-> imputed,
              outlier_info |-> outlier_info,
              printed_rows |-> Rows(df_clean),
              printed_removed |-> outlier_info.outlier_count,
              returned     |-> df_clean]

clean_data(frame, numeric_cols, outlier_threshold, fill_method) ==
    LET cols == IF numeric_cols.given THEN numeric_cols.names
                ELSE NumericColumns(frame)
        imputed == Impute(frame, cols, fill_method)
        outlier_info ==
            detect_outliers_zscore(imputed, [given |-> TRUE, names |-> cols],
                                   outlier_threshold)
        df_clean == BoolIndex(imputed, Negate(outlier_info.outlier_mask))
    IN  IF SelectionError(frame, cols) # "ok"
        THEN Raise(SelectionError(frame, cols))
        ELSE [status       |-> "ok",
              imputed      |-> imputed,
              outlier_info |-> outlier_info,
              printed_rows |-> Rows(df_clean),
              printed_removed |-> outlier_info.outlier_count,
              returned     |-> df_clean]

-----------------------------------------------------------------------------
(* Inputs *)

Index0(k) == [i \in 1..k |-> i - 1]

\* a frame with columns GHI, DNI (numeric) and Site (object) built from rows
FrameOfRows(rows) ==
    [columns |-> <<"GHI", "DNI", "Site">>,
     dtypes  |-> [c \in {"GHI", "DNI", "Site"} |->
                    IF c = "Site" THEN "object" ELSE "float64"],
     index   |-> Index0(Len(rows)),
     data    |-> [c \in {"GHI", "DNI", "Site"} |->
                    [i \in 1..Len(rows) |-> rows[i][c]]]]

\* a frame with no numeric column
SiteFrame(sites) ==
    [columns |-> <<"Site">>,
     dtypes  |-> [c \in {"Site"} |-> "object"],
     index   |-> Index0(Len(sites)),
     data    |-> [c \in {"Site"} |-> sites]]

\* a frame with the single numeric column GHI
GhiFrame(xs) ==
    [columns |-> <<"GHI">>,
     dtypes  |-> [c \in {"GHI"} |-> "float64"],
     index   |-> Index0(Len(xs)),
     data    |-> [c \in {"GHI"} |-> xs]]

RowTypes ==
    { [GHI |-> Num(0), DNI |-> Num(0), Site |-> Str(1)],
      [GHI |-> Num(4), DNI |-> Num(0), Site |-> NaN],
      [GHI |-> NaN,    DNI |-> Num(2), Site |-> Str(1)],
      [GHI |-> Num(3), DNI |-> NaN,    Site |-> Str(2)],
      [GHI |-> Num(0), DNI |-> Num(2), Site |-> Str(1)] }

SeqsUpTo(S, k) == UNION {[1..m -> S] : m \in 0..k}

SmallFrames ==
    {FrameOfRows(rows) : rows \in SeqsUpTo(RowTypes, MaxRows)}
      \cup {SiteFrame(s) : s \in SeqsUpTo({Str(1), NaN}, 2)}

\* 95 values of mean 500 and standard deviation 50, as blocks <<value, count>>:
\* the first three have population deviation 50, the last sample deviation 50
NormalProfiles ==
    { << <<575, 18>>, <<425, 18>>, <<525, 28>>, <<475, 28>>, <<500, 3>> >>,
      << <<600, 10>>, <<400, 10>>, <<525, 30>>, <<475, 30>>, <<500, 15>> >>,
      << <<825, 1>>, <<175, 1>>, <<525, 21>>, <<475, 21>>, <<500, 51>> >>,
      << <<550, 47>>, <<450, 47>>, <<500, 1>> >> }

RECURSIVE Blocks(_)
Blocks(p) ==
    IF p = <<>> THEN <<>>
    ELSE [i \in 1..Head(p)[2] |-> Num(Head(p)[1])] \o Blocks(Tail(p))

\* the 95 normal values with the five values 10000 placed first, last, or at
\* every twentieth row
ScenarioColumn(p, place) ==
    LET ns  == Blocks(p)
        big == [i \in 1..5 |-> Num(10000)]
    IN  IF place = "first" THEN big \o ns
        ELSE IF place = "last" THEN ns \o big
        ELSE [i \in 1..100 |->
                IF i % 20 = 0 THEN Num(10000) ELSE ns[i - (i \div 20)]]

ScenarioFrames ==
    {GhiFrame(ScenarioColumn(p, place)) :
        p \in NormalProfiles, place \in {"first", "last", "spread"}}

None == [given |-> FALSE, names |-> <<>>]

Cols(names) == [given |-> TRUE, names |-> names]

Selections ==
    {None, Cols(<<>>), Cols(<<"GHI">>), Cols(<<"DNI">>), Cols(<<"GHI", "DNI">>),
     Cols(<<"GHI", "DHI">>), Cols(<<"Site">>)}

Thresholds == {Rat(1, 2), Num(1), Num(3)}

FillMethods == {"median", "mean", "mode"}

NoCall == [op |-> "none", columns |-> None, threshold |-> Num(3),
           fill_method |-> "median"]

-----------------------------------------------------------------------------
(* File names, paths and the files of the project *)

\* A file name is the sequence of the pieces it is spelled with, so that
\* 'benin_cleaned.csv' is <<"benin", "_clean", "ed", ".csv">>. The pieces
\* are chosen so that the substrings the code looks for ('clean', '_clean',
\* '.csv', the dot of a suffix) never straddle two pieces.
Pieces ==
    {"benin", "Benin", "togo", "sierraleone", "mali", "-malanville", "-bumbuna",
     "-dapaong_qc", "clean", "_clean", "ed", ".csv", ".txt"}

\* sub occurs in one piece
Occurs(sub, piece) ==
    \/ sub = piece
    \/ sub = "clean" /\ piece = "_clean"

\* sub in name
StrIn(sub, name) == \E i \in 1..Len(name) : Occurs(sub, name[i])

\* name.replace(old, '')
StrRemove(name, old) == SelectSeq(name, LAMBDA piece : piece # old)

\* the piece that starts at the last dot of a name (0: none); a dot that
\* starts the name begins no suffix
LastDot(name) ==
    LET dots == {i \in 2..Len(name) : name[i] \in {".csv", ".txt"}}
    IN  IF dots = {} THEN 0 ELSE CHOOSE i \in dots : \A j \in dots : j <= i

\* Path.stem: the name without its last suffix
PathStem(name) ==
    IF LastDot(name) = 0 THEN name ELSE SubSeq(name, 1, LastDot(name) - 1)

\* the names Path.glob("*.csv") matches
GlobCsv(name) == Len(name) > 0 /\ name[Len(name)] = ".csv"

\* project_root / directory / name
PathOf(directory, name) == [dir |-> directory, name |-> name]

\* the project's files: the directories under the project root that exist
\* and the paths of the files in them
Files(dirs, paths) == [dirs |-> dirs, files |-> paths]

\* data_path.exists()
PathExists(files, path) == path \in files.files

\* a plausible slip: the path handed back without the exists() test
get_data_path_unchecked(files, filename, data_dir) ==
    [status |-> "ok", path |-> PathOf(data_dir, filename)]

get_data_path(files, filename, data_dir) ==
    LET data_path == PathOf(data_dir, filename)
    IN  IF ~PathExists(files, data_path)
        THEN Raise("FileNotFoundError")
        ELSE [status |-> "ok", path |-> data_path]

\* pd.read_csv(filepath, ...): the dataset stored at the path
ReadCsv(filepath) == [read_from |-> filepath]

\* the outcome of load_solar_data and the reads it made, in order: a sample
\* read of one row when parse_dates is None, then the full read
load_solar_data(files, filename, data_dir, parse_dates) ==
    LET filepath == get_data_path(files, filename, data_dir)
    IN  IF filepath.status # "ok"
        THEN [result |-> filepath, reads |-> <<>>]
        ELSE [result |-> [status |-> "ok", returned |-> ReadCsv(filepath.path)],
              reads  |-> IF parse_dates = "None"
                         THEN <<filepath.path, filepath.path>>
                         ELSE <<filepath.path>>]

\* a mapping as the set of its (key, value) pairs turned into a function
DictOf(pairs) ==
    [k \in {kv[1] : kv \in pairs} |-> (CHOOSE kv \in pairs : kv[1] = k)[2]]

\* a plausible slip: every .csv file listed, the cleaned ones too
get_dataset_info_listing_all(files) ==
    LET listed == {f \in files.files : f.dir = "data" /\ GlobCsv(f.name)}
    IN  [status   |-> "ok",
         datasets |-> IF "data" \in files.dirs
                      THEN DictOf({<<PathStem(f.name), f.name>> : f \in listed})
                      ELSE DictOf({})]

get_dataset_info(files) ==
    LET listed == {f \in files.files :
                      /\ f.dir = "data"
                      /\ GlobCsv(f.name)
                      /\ ~StrIn("clean", PathStem(f.name))}
    IN  [status   |-> "ok",
         datasets |-> IF "data" \in files.dirs
                      THEN DictOf({<<PathStem(f.name), f.name>> : f \in listed})
                      ELSE DictOf({})]

\* a plausible slip: the file written under the name as given
CleanNameAsGiven(filename) == filename

\* the file name save_cleaned_data writes for a given name
CleanName(filename) ==
    IF ~StrIn("_clean", filename)
    THEN StrRemove(filename, ".csv") \o <<"_clean", ".csv">>
    ELSE filename

\* the path save_cleaned_data returns and the files after it: the output
\* directory made if missing, the file written
save_cleaned_data(files, filename, output_dir) ==
    LET filepath == PathOf(output_dir, CleanName(filename))
    IN  [status |-> "ok",
         path   |-> filepath,
         files  |-> Files(files.dirs \cup {output_dir},
                          files.files \cup {filepath})]

\* str.lower() of one piece, and of a string
Lower(piece) == IF piece = "Benin" THEN "benin" ELSE piece

StrLower(name) == [i \in 1..Len(name) |-> Lower(name[i])]

\* sub in name, for a string sub of whole pieces
SubstrIn(sub, name) ==
    \E i \in 0..(Len(name) - Len(sub)) : SubSeq(name, i + 1, i + Len(sub)) = sub

\* name.replace(old, new): every piece old replaced by the pieces of new
RECURSIVE StrReplace(_, _, _)
StrReplace(name, old, new) ==
    IF name = <<>> THEN <<>>
    ELSE (IF Head(name) = old THEN new ELSE <<Head(name)>>)
             \o StrReplace(Tail(name), old, new)

\* the keys of get_dataset_info's mapping that run_eda's argument matches:
\* args.dataset.lower() in name.lower()
MatchingDatasets(datasets, dataset) ==
    {name \in DOMAIN datasets : SubstrIn(StrLower(dataset), StrLower(name))}

\* run_eda's numeric_cols: the listed columns the frame has
EdaNumericCols(frame) ==
    SelectSeq(<<"GHI", "DNI", "DHI", "ModA", "ModB", "WS", "WSgust">>,
              LAMBDA c : c \in SeqToSet(frame.columns))

\* the listed columns among the frame's numeric columns
ListedNumeric(frame, listed) ==
    SelectSeq(listed, LAMBDA c : c \in SeqToSet(NumericColumns(frame)))

\* whether run_eda produces a plot of the kind for the frame
PlotWanted(kind, frame) ==
    IF kind = "correlation"
    THEN ListedNumeric(frame, <<"GHI", "DNI", "DHI", "TModA", "TModB">>) # <<>>
    ELSE IF kind = "timeseries"
    THEN /\ "Timestamp" \in SeqToSet(frame.columns)
         /\ \E c \in {"GHI", "DNI", "DHI"} : c \in SeqToSet(frame.columns)
    ELSE ListedNumeric(frame, <<"GHI", "WS", "Tamb", "RH">>) # <<>>

\* the plot kind after a kind, "done" after the last
NextPlot(kind) ==
    IF kind = "correlation" THEN "timeseries"
    ELSE IF kind = "timeseries" THEN "distributions"
    ELSE "done"

\* one entry of the record of what a run did, in order
Event(ev, path) == [ev |-> ev, path |-> path]

\* where run_eda goes after the lookup of the dataset name
AfterMatch(matched) == IF matched THEN "mkdir" ELSE "done"

\* a plausible slip: the error of the load printed and the run going on
AfterLoadIgnoringError(status, skip_cleaning) ==
    IF skip_cleaning THEN "correlation" ELSE "clean"

\* where run_eda goes after the load: it returns on any exception
AfterLoad(status, skip_cleaning) ==
    IF status # "ok" THEN "done"
    ELSE IF skip_cleaning THEN "correlation"
    ELSE "clean"

\* the files the dashboard looks for, by country
country_files ==
    [Benin        |-> <<"benin", "_clean", ".csv">>,
     SierraLeone  |-> <<"sierraleone", "_clean", ".csv">>,
     Togo         |-> <<"togo", "_clean", ".csv">>]

\* the dashboard's load_all_datasets: a dataset for each country whose file
\* exists in the data directory
load_all_datasets(files) ==
    LET found == {country \in DOMAIN country_files :
                     PathExists(files, PathOf("data", country_files[country]))}
    IN  [status   |-> "ok",
         datasets |-> [country \in found |->
                         ReadCsv(PathOf("data", country_files[country]))]]

\* the three raw datasets (config.DATASETS)
RawDatasetNames ==
    {<<"benin", "-malanville", ".csv">>, <<"sierraleone", "-bumbuna", ".csv">>,
     <<"togo", "-dapaong_qc", ".csv">>}

\* the dataset arguments run_eda is called with: names of datasets in
\* either case, in part or whole, a name no dataset has, and the empty string
DatasetArgs ==
    {<<"benin">>, <<"Benin", "-malanville">>, <<"sierraleone">>,
     <<"togo", "-dapaong_qc">>, <<"mali">>, <<>>}

\* a frame with a Timestamp column in front
WithTimestamp(frame) ==
    [columns |-> <<"Timestamp">> \o frame.columns,
     dtypes  |-> [c \in {"Timestamp"} \cup DOMAIN frame.dtypes |->
                    IF c = "Timestamp" THEN "datetime64" ELSE frame.dtypes[c]],
     index   |-> frame.index,
     data    |-> [c \in {"Timestamp"} \cup DOMAIN frame.data |->
                    IF c = "Timestamp" THEN [i \in 1..Rows(frame) |-> Str(i)]
                    ELSE frame.data[c]]]

\* a frame whose GHI column was read as text
TextGhiFrame ==
    [columns |-> <<"GHI">>,
     dtypes  |-> [c \in {"GHI"} |-> "object"],
     index   |-> Index0(1),
     data    |-> [c \in {"GHI"} |-> <<Str(1)>>]]

\* the datasets a data file may hold: the one-row frames, one with a
\* Timestamp column, one with a text GHI column
EdaFrames ==
    {f \in SmallFrames : Rows(f) = 1}
      \cup {WithTimestamp(GhiFrame(<<Num(0)>>)), TextGhiFrame}

\* the project before run_eda: without a data directory, and with the three
\* raw datasets
EdaInitialFiles ==
    {Files({}, {}),
     Files({"data"}, {PathOf("data", name) : name \in RawDatasetNames})}

\* the file names and directories the calls are made with
FileNames ==
    {<<"benin", ".csv">>, <<"togo", ".csv">>, <<"benin">>,
     <<"benin", ".txt">>, <<"benin", "_clean", ".csv">>,
     <<"benin", "_clean", "ed", ".csv">>, <<"clean", "ed", ".csv">>,
     <<"togo", "_clean", ".txt">>}

Directories == {"data", "results"}

\* the project before any call: no data directory, an empty one, one with
\* raw and cleaned datasets and a text file, one beside a results directory
InitialFiles ==
    {Files({}, {}),
     Files({"data"}, {}),
     Files({"data"}, {PathOf("data", <<"benin", ".csv">>),
                      PathOf("data", <<"togo", ".csv">>),
                      PathOf("data", <<"benin", "_clean", ".csv">>),
                      PathOf("data", <<"benin", ".txt">>)}),
     Files({"data", "results"},
           {PathOf("data", <<"clean", "ed", ".csv">>),
            PathOf("data", <<"benin", "_clean", "ed", ".csv">>),
            PathOf("results", <<"togo", ".csv">>)})}

NoMemo == [set |-> FALSE]

NoIo == [op |-> "none"]

\* no run of run_eda made yet
NoRun ==
    [pc |-> "idle", dataset |-> <<>>, output_dir |-> "results",
     skip_cleaning |-> FALSE, matched |-> FALSE, filename |-> <<>>,
     log |-> <<>>, fs0 |-> Files({}, {}), cleaned |-> {}]

-----------------------------------------------------------------------------
(* The caller *)

Init ==
    /\ df \in SmallFrames
    /\ call = NoCall
    /\ result = [status |-> "none"]
    /\ reused = FALSE
    /\ memo = NoMemo
    /\ fs = Files({}, {})
    /\ io = NoIo
    /\ written = {}
    /\ run = NoRun

\* the remembered call stays as it is, and notes that another call came
\* after it
Noted(newcall) ==
    IF memo.set /\ newcall # memo.call THEN [memo EXCEPT !.others = TRUE]
    ELSE memo

\* after Rebind the caller repeats the arguments of the call that cleaned
SameArguments(columns, threshold, fill_method) ==
    reused => /\ columns = call.columns
              /\ threshold = call.threshold
              /\ fill_method = call.fill_method

DetectOutliers ==
    \E columns \in Selections, threshold \in Thresholds :
        /\ result.status = "none"
        /\ SameArguments(columns, threshold, call.fill_method)
        /\ call' = [op |-> "detect_outliers_zscore", columns |-> columns,
                    threshold |-> threshold, fill_method |-> call.fill_method]
        /\ result' = detect_outliers_zscore(df, columns, threshold)
        /\ memo' = Noted(call')
        /\ UNCHANGED <<df, reused>>
        /\ UNCHANGED file_vars

CleanData ==
    \E columns \in Selections, threshold \in Thresholds,
       fill_method \in FillMethods :
        /\ result.status = "none"
        /\ SameArguments(columns, threshold, fill_method)
        /\ call' = [op |-> "clean_data", columns |-> columns,
                    threshold |-> threshold, fill_method |-> fill_method]
        /\ result' = clean_data(df, columns, threshold, fill_method)
        /\ df' = IF result'.status = "ok"
                 THEN CallerFrameAfterClean(df, result'.imputed) ELSE df
        /\ memo' = Noted(call')
        /\ UNCHANGED reused
        /\ UNCHANGED file_vars

\* df = clean_data(df, ...): the caller goes on with the cleaned frame
Rebind ==
    /\ ~reused
    /\ call.op = "clean_data"
    /\ result.status = "ok"
    /\ df' = result.returned
    /\ reused' = TRUE
    /\ result' = [status |-> "none"]
    /\ UNCHANGED <<call, memo>>
    /\ UNCHANGED file_vars

\* the caller drops the result and is ready for its next call
Discard ==
    /\ ~reused
    /\ result.status # "none"
    /\ call' = NoCall
    /\ result' = [status |-> "none"]
    /\ UNCHANGED <<df, reused, memo>>
    /\ UNCHANGED file_vars

Next == DetectOutliers \/ CleanData \/ Rebind \/ Discard

Spec == Init /\ [][Next]_vars

InitScenario ==
    /\ df \in ScenarioFrames
    /\ call = NoCall
    /\ result = [status |-> "none"]
    /\ reused = FALSE
    /\ memo = NoMemo
    /\ fs = Files({}, {})
    /\ io = NoIo
    /\ written = {}
    /\ run = NoRun

SpecScenario == InitScenario /\ [][Next]_vars

-----------------------------------------------------------------------------
(* A caller that keeps the result of one call to compare later ones with *)

\* two-row frames with a missing numeric cell
RepeatFrames ==
    {f \in {FrameOfRows(rows) : rows \in [1..2 -> RowTypes]} :
        \E c \in {"GHI", "DNI"} : \E i \in 1..2 : IsNa(f.data[c][i])}

InitRepeat ==
    /\ df \in RepeatFrames
    /\ call = NoCall
    /\ result = [status |-> "none"]
    /\ reused = FALSE
    /\ memo = NoMemo
    /\ fs = Files({}, {})
    /\ io = NoIo
    /\ written = {}
    /\ run = NoRun

\* first = f(df, ...): the caller keeps the call, its result and the frame
\* it holds, and is ready for its next call
Remember ==
    /\ ~memo.set
    /\ result.status # "none"
    /\ memo' = [set |-> TRUE, df |-> df, call |-> call, result |-> result,
                others |-> FALSE]
    /\ call' = NoCall
    /\ result' = [status |-> "none"]
    /\ UNCHANGED <<df, reused>>
    /\ UNCHANGED file_vars

NextRepeat == DetectOutliers \/ CleanData \/ Discard \/ Remember

SpecRepeat == InitRepeat /\ [][NextRepeat]_vars

-----------------------------------------------------------------------------
(* A caller that cleans a four-row frame and goes on with the cleaned one *)

\* four rows: the fewest of which a cleaning can drop one and leave three
\* that do not all lie within one deviation of their new mean
TwiceFrames == {FrameOfRows(rows) : rows \in [1..4 -> RowTypes]}

InitTwice ==
    /\ df \in TwiceFrames
    /\ call = NoCall
    /\ result = [status |-> "none"]
    /\ reused = FALSE
    /\ memo = NoMemo
    /\ fs = Files({}, {})
    /\ io = NoIo
    /\ written = {}
    /\ run = NoRun

SpecTwice == InitTwice /\ [][Next]_vars

-----------------------------------------------------------------------------
(* A caller of the loader and of save_cleaned_data *)

InitFiles ==
    /\ df = FrameOfRows(<<>>)
    /\ call = NoCall
    /\ result = [status |-> "none"]
    /\ reused = FALSE
    /\ memo = NoMemo
    /\ fs \in InitialFiles
    /\ io = NoIo
    /\ written = {}
    /\ run = NoRun

GetDataPath ==
    \E filename \in FileNames, data_dir \in Directories :
        /\ io.op = "none"
        /\ io' = [op |-> "get_data_path", filename |-> filename,
                  dir |-> data_dir,
                  result |-> get_data_path(fs, filename, data_dir),
                  reads |-> <<>>]
        /\ UNCHANGED <<fs, written, run>>
        /\ UNCHANGED profiler_vars

LoadSolarData ==
    \E filename \in FileNames, data_dir \in Directories,
       parse_dates \in {"None", "Timestamp"} :
        LET loaded == load_solar_data(fs, filename, data_dir, parse_dates)
        IN  /\ io.op = "none"
            /\ io' = [op |-> "load_solar_data", filename |-> filename,
                      dir |-> data_dir, result |-> loaded.result,
                      reads |-> loaded.reads]
            /\ UNCHANGED <<fs, written, run>>
            /\ UNCHANGED profiler_vars

GetDatasetInfo ==
    /\ io.op = "none"
    /\ io' = [op |-> "get_dataset_info", filename |-> <<>>, dir |-> "data",
              result |-> get_dataset_info(fs), reads |-> <<>>]
    /\ UNCHANGED <<fs, written, run>>
    /\ UNCHANGED profiler_vars

SaveCleanedData ==
    \E filename \in FileNames, output_dir \in Directories :
        LET saved == save_cleaned_data(fs, filename, output_dir)
        IN  /\ io.op = "none"
            /\ \/ saved.path \in written
               \/ Cardinality(written) < MaxSaves
            /\ io' = [op |-> "save_cleaned_data", filename |-> filename,
                      dir |-> output_dir,
                      result |-> [status |-> saved.status, path |-> saved.path],
                      reads |-> <<>>]
            /\ fs' = saved.files
            /\ written' = written \cup {saved.path}
            /\ UNCHANGED run
            /\ UNCHANGED profiler_vars

\* the caller is ready for its next call
Finish ==
    /\ io.op # "none"
    /\ io' = NoIo
    /\ UNCHANGED <<fs, written, run>>
    /\ UNCHANGED profiler_vars

NextFiles ==
    GetDataPath \/ LoadSolarData \/ GetDatasetInfo \/ SaveCleanedData \/ Finish

SpecFiles == InitFiles /\ [][NextFiles]_vars

-----------------------------------------------------------------------------
(* run_eda, step by step, and the dashboard's loader *)

InitEda ==
    /\ df = FrameOfRows(<<>>)
    /\ call = NoCall
    /\ result = [status |-> "none"]
    /\ reused = FALSE
    /\ memo = NoMemo
    /\ fs \in EdaInitialFiles
    /\ io = NoIo
    /\ written = {}
    /\ run = NoRun

Logged(ev, path) == Append(run.log, Event(ev, path))

\* lines 46-61: the arguments, the lookup of the dataset; the order of the
\* mapping is the order of the directory listing, so any match can be first
EdaStart ==
    /\ run.pc \in {"idle", "done", "crashed"}
    /\ io.op = "none"
    /\ \E dataset \in DatasetArgs, output_dir \in Directories,
          skip_cleaning \in BOOLEAN :
           LET datasets == get_dataset_info(fs).datasets
               matches  == MatchingDatasets(datasets, dataset)
               started  == [run EXCEPT !.dataset = dataset,
                                       !.output_dir = output_dir,
                                       !.skip_cleaning = skip_cleaning,
                                       !.fs0 = fs]
           IN  \/ /\ matches = {}
                  /\ run' = [started EXCEPT
                               !.matched = FALSE, !.filename = <<>>,
                               !.pc = AfterMatch(FALSE),
                               !.log = <<Event("not_found", PathOf("data", dataset))>>]
               \/ \E name \in matches :
                     run' = [started EXCEPT
                               !.matched = TRUE, !.filename = datasets[name],
                               !.pc = AfterMatch(TRUE),
                               !.log = <<Event("found", PathOf("data", datasets[name]))>>]
    /\ df' = FrameOfRows(<<>>)
    /\ call' = NoCall
    /\ result' = [status |-> "none"]
    /\ UNCHANGED <<reused, memo, fs, io, written>>

\* lines 68-69: output_dir.mkdir(exist_ok=True)
EdaMkdir ==
    /\ run.pc = "mkdir"
    /\ fs' = Files(fs.dirs \cup {run.output_dir}, fs.files)
    /\ run' = [run EXCEPT !.pc = "load",
                          !.log = Logged("mkdir", PathOf(run.output_dir, <<>>))]
    /\ UNCHANGED <<io, written>>
    /\ UNCHANGED profiler_vars

\* lines 72-77: the load inside try/except; the file may not parse
EdaLoad ==
    \E readable \in BOOLEAN, frame \in EdaFrames :
        LET loaded == IF readable
                      THEN load_solar_data(fs, run.filename, "data", "Timestamp").result
                      ELSE Raise("ParserError")
        IN  /\ run.pc = "load"
            /\ df' = IF loaded.status = "ok" THEN frame ELSE df
            /\ run' = [run EXCEPT
                         !.pc = AfterLoad(loaded.status, run.skip_cleaning),
                         !.log = Logged(IF loaded.status = "ok" THEN "loaded"
                                        ELSE "load_error",
                                        PathOf("data", run.filename))]
            /\ UNCHANGED <<call, result, reused, memo, fs, io, written>>

\* lines 80-85: clean_data on the listed columns the frame has
EdaClean ==
    /\ run.pc = "clean"
    /\ call' = [op |-> "clean_data", columns |-> Cols(EdaNumericCols(df)),
                threshold |-> Num(3), fill_method |-> "median"]
    /\ result' = clean_data(df, Cols(EdaNumericCols(df)), Num(3), "median")
    /\ df' = IF result'.status = "ok"
             THEN CallerFrameAfterClean(df, result'.imputed) ELSE df
    /\ run' = [run EXCEPT
                 !.pc = IF result'.status = "ok" THEN "save" ELSE "crashed",
                 !.log = Logged(IF result'.status = "ok" THEN "cleaned"
                                ELSE "clean_error",
                                PathOf("data", run.filename))]
    /\ UNCHANGED <<reused, memo, fs, io, written>>

\* lines 88-89: save_cleaned_data(df_clean, clean_filename), output_dir left
\* at its default
EdaSave ==
    LET clean_filename == StrReplace(run.filename, ".csv", <<"_clean", ".csv">>)
        saved == save_cleaned_data(fs, clean_filename, "data")
    IN  /\ run.pc = "save"
        /\ fs' = saved.files
        /\ written' = written \cup {saved.path}
        /\ run' = [run EXCEPT !.pc = "correlation",
                              !.log = Logged("saved", saved.path),
                              !.cleaned = @ \cup {run.filename}]
        /\ UNCHANGED io
        /\ UNCHANGED profiler_vars

\* lines 95-130: the three plots, each made when the frame has its columns;
\* main returns after the last, and its local frames are gone
EdaPlot ==
    LET df_clean == IF run.skip_cleaning THEN df ELSE result.returned
    IN  /\ run.pc \in {"correlation", "timeseries", "distributions"}
        /\ run' = [run EXCEPT
                     !.pc = NextPlot(run.pc),
                     !.log = IF PlotWanted(run.pc, df_clean)
                             THEN Logged("plot",
                                         PathOf(run.output_dir,
                                                run.dataset \o <<"_", run.pc, ".png">>))
                             ELSE run.log]
        /\ IF NextPlot(run.pc) = "done"
           THEN /\ df' = FrameOfRows(<<>>)
                /\ call' = NoCall
                /\ result' = [status |-> "none"]
           ELSE UNCHANGED <<df, call, result>>
        /\ UNCHANGED <<reused, memo, fs, io, written>>

\* the dashboard loads the cleaned datasets
LoadAllDatasets ==
    /\ io.op = "none"
    /\ run.pc \in {"idle", "done", "crashed"}
    /\ io' = [op |-> "load_all_datasets", filename |-> <<>>, dir |-> "data",
              result |-> load_all_datasets(fs), reads |-> <<>>]
    /\ UNCHANGED <<fs, written, run>>
    /\ UNCHANGED profiler_vars

NextEda ==
    \/ EdaStart \/ EdaMkdir \/ EdaLoad \/ EdaClean \/ EdaSave \/ EdaPlot
    \/ LoadAllDatasets \/ Finish

SpecEda == InitEda /\ [][NextEda]_vars

-----------------------------------------------------------------------------
(* Vocabulary of the properties, stated on the frames themselves *)

Detected == call.op = "detect_outliers_zscore" /\ result.status = "ok"

Cleaned == call.op = "clean_data" /\ result.status = "ok"

\* the columns a call selects: the given names, else every numeric column
Selected(frame) ==
    IF call.columns.given THEN SeqToSet(call.columns.names)
    ELSE {c \in SeqToSet(frame.columns) : frame.dtypes[c] = "float64"}

Present(xs) == SelectSeq(xs, LAMBDA v : v.t = "num")

HasValue(xs) == \E i \in 1..Len(xs) : xs[i].t = "num"

Square(x) == RMul(x, x)

\* mean and variance of the values present in a column (one pass:
\* E[x^2] - E[x]^2), for a column with a value
MeanOf(xs) == RDiv(SumSeq(Present(xs)), Num(Len(Present(xs))))

VarOf(xs) ==
    LET ys == Present(xs)
        sq == Array([i \in 1..Len(ys) |-> Square(ys[i])])
    IN  RSub(RDiv(SumSeq(sq), Num(Len(ys))), Square(MeanOf(xs)))

\* |xs[i] - mean| / std > threshold, for a threshold >= 0
Exceeds(xs, i, threshold) ==
    /\ xs[i].t = "num"
    /\ RLess(Num(0), VarOf(xs))
    /\ RLess(RMul(Square(threshold), VarOf(xs)), Square(RSub(xs[i], MeanOf(xs))))

\* the position of row label lbl in a frame
PosOf(frame, lbl) == CHOOSE i \in 1..Rows(frame) : frame.index[i] = lbl

UniqueLabels(frame) == Cardinality(SeqToSet(frame.index)) = Rows(frame)

-----------------------------------------------------------------------------
\* C1: clean_data returns a frame whose rows are rows of its input (no more
\* rows than the input, every row label an input row label, none twice) and
\* whose columns are exactly the input's columns.
C1_CleanKeepsRowsSubsetAndColumns ==
    Cleaned =>
        /\ Rows(result.returned) <= Rows(df)
        /\ SeqToSet(result.returned.index) \subseteq SeqToSet(df.index)
        /\ UniqueLabels(result.returned)
        /\ result.returned.columns = df.columns
        /\ DOMAIN result.returned.data = DOMAIN df.data
        /\ \A c \in DOMAIN result.returned.data :
              Len(result.returned.data[c]) = Rows(result.returned)

\* a cleaning that dropped some rows and kept others
C1_Witness ==
    /\ Cleaned
    /\ 0 < Rows(result.returned)
    /\ Rows(result.returned) < Rows(df)

\* C2: detect_outliers_zscore flags a row iff some selected column holds a
\* value in that row whose distance to the column mean, over the column's
\* standard deviation, exceeds the threshold; mean and deviation are taken
\* over the values present only.
C2_FlaggedIffSomeColumnExceeds ==
    Detected =>
        /\ Len(result.outlier_mask) = Rows(df)
        /\ \A i \in 1..Rows(df) :
              result.outlier_mask[i] <=>
                 \E c \in Selected(df) : Exceeds(df.data[c], i, call.threshold)

\* two selected columns, one with a missing value; one row flagged by a single
\* column, another row not flagged
C2_Witness ==
    /\ Detected
    /\ Cardinality(Selected(df)) = 2
    /\ \E c \in Selected(df) : \E i \in 1..Rows(df) : IsNa(df.data[c][i])
    /\ \E i \in 1..Rows(df) : ~result.outlier_mask[i]
    /\ \E i \in 1..Rows(df) :
          /\ result.outlier_mask[i]
          /\ \E c \in Selected(df) : ~Exceeds(df.data[c], i, call.threshold)

\* value - mean compared with threshold * std, for a column of positive
\* deviation and a threshold >= 0
AboveBound(xs, i, threshold) ==
    /\ RLess(Num(0), RSub(xs[i], MeanOf(xs)))
    /\ RLess(RMul(Square(threshold), VarOf(xs)), Square(RSub(xs[i], MeanOf(xs))))

AtBound(xs, i, threshold) ==
    /\ RLeq(Num(0), RSub(xs[i], MeanOf(xs)))
    /\ RMul(Square(threshold), VarOf(xs)) = Square(RSub(xs[i], MeanOf(xs)))

BelowBound(xs, i, threshold) ==
    /\ RLeq(Num(0), RSub(xs[i], MeanOf(xs)))
    /\ RLess(Square(RSub(xs[i], MeanOf(xs))), RMul(Square(threshold), VarOf(xs)))

\* C3: the comparison with the threshold is strict.  In a selected column of
\* positive deviation a value above mean + threshold*std flags its row; when
\* that column is the only one selected, a value between the mean and
\* mean + threshold*std does not, and neither does a value equal to
\* mean + threshold*std.
C3_ThresholdIsStrict ==
    Detected =>
        \A c \in Selected(df) : \A i \in 1..Rows(df) :
            (df.data[c][i].t = "num" /\ RLess(Num(0), VarOf(df.data[c]))) =>
               /\ AboveBound(df.data[c], i, call.threshold)
                     => result.outlier_mask[i]
               /\ (Selected(df) = {c} /\ BelowBound(df.data[c], i, call.threshold))
                     => ~result.outlier_mask[i]
               /\ (Selected(df) = {c} /\ AtBound(df.data[c], i, call.threshold))
                     => ~result.outlier_mask[i]

\* one column selected; a value exactly at mean + threshold*std, not flagged
C3_Witness ==
    /\ Detected
    /\ \E c \in Selected(df) : \E i \in 1..Rows(df) :
          /\ Selected(df) = {c}
          /\ df.data[c][i].t = "num"
          /\ RLess(Num(0), VarOf(df.data[c]))
          /\ AtBound(df.data[c], i, call.threshold)
          /\ ~result.outlier_mask[i]

\* a value above the bound (flagged) beside one below it (not flagged)
C3_WitnessAboveBelow ==
    /\ Detected
    /\ \E c \in Selected(df) : \E i, j \in 1..Rows(df) :
          /\ Selected(df) = {c}
          /\ df.data[c][i].t = "num" /\ df.data[c][j].t = "num"
          /\ AboveBound(df.data[c], i, call.threshold)
          /\ BelowBound(df.data[c], j, call.threshold)
          /\ result.outlier_mask[i] /\ ~result.outlier_mask[j]

\* the columns a call selects, in order
SelectedSeq(frame) ==
    IF call.columns.given THEN call.columns.names
    ELSE SelectSeq(frame.columns, LAMBDA c : frame.dtypes[c] = "float64")

\* every value present in the column is the same value (deviation zero)
AllEqual(xs) ==
    \A i, j \in 1..Len(xs) : (xs[i].t = "num" /\ xs[j].t = "num") => xs[i] = xs[j]

SelectionValid(frame) ==
    \A c \in Selected(frame) :
        c \in SeqToSet(frame.columns) /\ frame.dtypes[c] = "float64"

\* C4: a selected column whose present values are all equal flags no row, for
\* every threshold: detection with such columns selected succeeds, every
\* flagged row exceeds the threshold in a column that is not constant, and
\* the mask is the mask of the same detection without the constant columns.
C4_ConstantColumnFlagsNothing ==
    (call.op = "detect_outliers_zscore" /\ SelectionValid(df)) =>
        /\ result.status = "ok"
        /\ \A i \in 1..Rows(df) :
              result.outlier_mask[i] =>
                 \E c \in Selected(df) :
                    ~AllEqual(df.data[c]) /\ df.data[c][i].t = "num"
        /\ result.outlier_mask =
              detect_outliers_zscore(df,
                 Cols(SelectSeq(SelectedSeq(df), LAMBDA c : ~AllEqual(df.data[c]))),
                 call.threshold).outlier_mask

\* a constant column of two or more values selected beside a column that
\* flags a row
C4_Witness ==
    /\ Detected
    /\ Cardinality(Selected(df)) = 2
    /\ \E c \in Selected(df) :
          AllEqual(df.data[c]) /\ Len(Present(df.data[c])) >= 2
    /\ \E i \in 1..Rows(df) : result.outlier_mask[i]

\* the scenario of the claim: 100 rows, GHI holding five values 10000 and 95
\* values of mean 500 and deviation 50 (population or sample)
IsScenario(frame) ==
    /\ "GHI" \in SeqToSet(frame.columns)
    /\ Rows(frame) = 95 + 5
    /\ \A i \in 1..Rows(frame) : frame.data["GHI"][i].t = "num" /\ frame.data["GHI"][i].d = 1
    /\ LET big    == SelectSeq(frame.data["GHI"], LAMBDA v : v.n = 10000)
           normal == SelectSeq(frame.data["GHI"], LAMBDA v : v.n # 10000)
           devsq  == Array([i \in 1..Len(normal) |-> Square(RSub(normal[i], Num(500)))])
       IN  /\ Len(big) = 5
           /\ SumSeq(normal) = Num(95 * 500)
           /\ SumSeq(devsq) \in {Num(95 * 50 * 50), Num(94 * 50 * 50)}

\* C5: on the scenario frame, detect_outliers_zscore on GHI with threshold 3
\* reports outlier_count 5 and flags exactly the five rows holding 10000.
C5_ScenarioReportsFiveOutliers ==
    (Detected /\ IsScenario(df) /\ result.columns_analyzed = <<"GHI">>
        /\ call.threshold = Num(3)) =>
        /\ result.outlier_count = 5
        /\ \A i \in 1..Rows(df) :
              result.outlier_mask[i] <=> df.data["GHI"][i] = Num(10000)
        /\ Rows(result.outlier_rows) = 5
        /\ \A k \in 1..Rows(result.outlier_rows) :
              result.outlier_rows.data["GHI"][k] = Num(10000)

\* the scenario with the five large values spread over the rows
C5_Witness ==
    /\ Detected /\ IsScenario(df)
    /\ call.columns = Cols(<<"GHI">>) /\ call.threshold = Num(3)
    /\ df.data["GHI"][1] # Num(10000) /\ df.data["GHI"][100] = Num(10000)
    /\ result.outlier_count = 5

Filling == call.fill_method \in {"median", "mean"}

\* m is the median of the values present in xs (xs holds a value): at most
\* half of them lie below m and at most half above; m is one of them, or it
\* lies midway between the nearest value below and the nearest value above
IsMedianOf(m, xs) ==
    LET ys == Present(xs)
        lt == SelectSeq(ys, LAMBDA y : RLess(y, m))
        gt == SelectSeq(ys, LAMBDA y : RLess(m, y))
    IN  \/ /\ \E i \in 1..Len(ys) : ys[i] = m
           /\ 2 * Len(lt) < Len(ys)
           /\ 2 * Len(gt) < Len(ys)
        \/ /\ \A i \in 1..Len(ys) : ys[i] # m
           /\ 2 * Len(lt) = Len(ys)
           /\ 2 * Len(gt) = Len(ys)
           /\ \E i \in 1..Len(lt), j \in 1..Len(gt) :
                 /\ \A k \in 1..Len(lt) : RLeq(lt[k], lt[i])
                 /\ \A k \in 1..Len(gt) : RLeq(gt[j], gt[k])
                 /\ RAdd(m, m) = RAdd(lt[i], gt[j])

\* v is the fill statistic of column xs under the call's fill method
IsFillStatistic(v, xs) ==
    /\ v.t = "num"
    /\ HasValue(xs)
    /\ IF call.fill_method = "median" THEN IsMedianOf(v, xs) ELSE v = MeanOf(xs)

\* C6 (as claimed): with fill method median or mean the imputation step
\* replaces every missing value of each selected column by the column's
\* median or mean over its values present, so that no missing value remains
\* in any selected column, and leaves every value present unchanged.
C6_ImputationLeavesNoMissing ==
    (Cleaned /\ Filling) =>
        \A c \in Selected(df) : \A i \in 1..Rows(df) :
            /\ result.imputed.data[c][i].t = "num"
            /\ df.data[c][i].t = "num" => result.imputed.data[c][i] = df.data[c][i]
            /\ IsNa(df.data[c][i]) =>
                  IsFillStatistic(result.imputed.data[c][i], df.data[c])

\* What holds of the imputation step: the statement of C6 for the selected
\* columns that hold a value; a selected column with no value at all is left
\* entirely missing.
ImputationFillsColumnsHoldingAValue ==
    (Cleaned /\ Filling) =>
        \A c \in Selected(df) : \A i \in 1..Rows(df) :
            IF HasValue(df.data[c])
            THEN /\ result.imputed.data[c][i].t = "num"
                 /\ df.data[c][i].t = "num" =>
                       result.imputed.data[c][i] = df.data[c][i]
                 /\ IsNa(df.data[c][i]) =>
                       IsFillStatistic(result.imputed.data[c][i], df.data[c])
            ELSE IsNa(result.imputed.data[c][i])

\* a half-missing column filled with a median that is none of its values
ImputationWitness ==
    /\ Cleaned /\ call.fill_method = "median"
    /\ \E c \in Selected(df) : \E i \in 1..Rows(df) :
          /\ IsNa(df.data[c][i])
          /\ result.imputed.data[c][i].t = "num"
          /\ result.imputed.data[c][i].d = 2

\* C7: imputation changes nothing outside the selected columns: in every row
\* clean_data keeps, each column that is not selected holds the cell it held
\* in the input, a missing cell still missing.
C7_UnselectedColumnsUntouched ==
    Cleaned =>
        \A k \in 1..Rows(result.returned) :
            \A c \in SeqToSet(df.columns) \ Selected(df) :
                result.returned.data[c][k] =
                    df.data[c][PosOf(df, result.returned.index[k])]

\* a value was imputed in a selected column while a numeric column that is
\* not selected keeps a missing cell in a kept row
C7_Witness ==
    /\ Cleaned
    /\ \E c \in Selected(df) : \E i \in 1..Rows(df) :
          IsNa(df.data[c][i]) /\ ~IsNa(result.imputed.data[c][i])
    /\ \E c \in SeqToSet(df.columns) \ Selected(df) :
          /\ df.dtypes[c] = "float64"
          /\ \E k \in 1..Rows(result.returned) : IsNa(result.returned.data[c][k])

Unflagged(mask) == SelectSeq([i \in 1..Len(mask) |-> i], LAMBDA i : ~mask[i])

\* C9: clean_data imputes, then scores, then filters: the Z-scores are those
\* of the imputed frame, the rows dropped are exactly the rows that detection
\* flags, and the count of removed rows it reports is the input row count
\* minus the output row count.
C9_ImputeThenScoreThenFilter ==
    Cleaned =>
        LET mask == result.outlier_info.outlier_mask
            keep == Unflagged(mask)
        IN  /\ result.imputed.index = df.index
            /\ \A c \in DOMAIN df.data : \A i \in 1..Rows(df) :
                  df.data[c][i].t # "nan" => result.imputed.data[c][i] = df.data[c][i]
            /\ Len(mask) = Rows(df)
            /\ \A i \in 1..Rows(df) :
                  mask[i] <=> \E c \in Selected(df) :
                                 Exceeds(result.imputed.data[c], i, call.threshold)
            /\ result.returned.index = [k \in 1..Len(keep) |-> df.index[keep[k]]]
            /\ \A c \in DOMAIN df.data :
                  result.returned.data[c] =
                      [k \in 1..Len(keep) |-> result.imputed.data[c][keep[k]]]
            /\ result.printed_removed = Rows(df) - Rows(result.returned)
            /\ result.printed_rows = Rows(result.returned)

\* a cleaning that dropped a row which the raw frame's Z-scores do not flag
C9_Witness ==
    /\ Cleaned
    /\ Rows(result.returned) < Rows(df)
    /\ \E i \in 1..Rows(df) :
          /\ result.outlier_info.outlier_mask[i]
          /\ ~\E c \in Selected(df) : Exceeds(df.data[c], i, call.threshold)

NamesUnknownColumn(frame) ==
    \E c \in Selected(frame) : c \notin SeqToSet(frame.columns)

\* C10: when the selection names a column the frame does not have,
\* detect_outliers_zscore and clean_data raise the unknown-column error
\* (KeyError) to the caller and return nothing: no mask, no count, no frame.
C10_UnknownColumnRaises ==
    (call.op \in {"detect_outliers_zscore", "clean_data"} /\ NamesUnknownColumn(df)) =>
        /\ result.status = "KeyError"
        /\ DOMAIN result = {"status"}

\* clean_data on a frame with rows, asked for a column it does not have
C10_Witness ==
    /\ call.op = "clean_data"
    /\ NamesUnknownColumn(df)
    /\ Rows(df) > 0
    /\ result.status = "KeyError"

\* detect_outliers_zscore asked for a column the frame does not have
C10_WitnessDetect ==
    /\ call.op = "detect_outliers_zscore"
    /\ NamesUnknownColumn(df)
    /\ Rows(df) > 0
    /\ result.status = "KeyError"

-----------------------------------------------------------------------------
NoNumericColumn(frame) ==
    \A c \in SeqToSet(frame.columns) : frame.dtypes[c] # "float64"

\* C11: a frame with rows but without any numeric column, and no selection
\* given:
\* detect_outliers_zscore and clean_data fail with an error reported to the
\* caller ('nothing to analyze') and return no result.
C11_NoNumericColumnRaises ==
    ( /\ call.op \in {"detect_outliers_zscore", "clean_data"}
      /\ result.status # "none"
      /\ ~call.columns.given
      /\ Rows(df) > 0
      /\ NoNumericColumn(df) ) =>
        /\ result.status # "ok"
        /\ DOMAIN result = {"status"}

\* C12: a selected column of a frame with rows holds no value at all:
\* the imputation of clean_data fails (undefined statistic); it never
\* completes with that column still entirely missing.
C12_AllMissingColumnRaises ==
    ( /\ call.op = "clean_data"
      /\ result.status # "none"
      /\ Filling
      /\ Rows(df) > 0
      /\ \E c \in Selected(df) \cap SeqToSet(df.columns) : ~HasValue(df.data[c]) ) =>
        result.status # "ok"

\* C13: with fill_method 'mode', clean_data fills every missing cell of each
\* selected column (that holds a value) before the outliers are detected: no
\* missing cell remains there.
C13_ModeFillsMissing ==
    (Cleaned /\ call.fill_method = "mode") =>
        \A c \in Selected(df) :
            HasValue(df.data[c]) =>
                \A i \in 1..Rows(df) : result.imputed.data[c][i].t = "num"

\* the set of positions a mask flags
Flagged(mask) == {i \in 1..Len(mask) : mask[i]}

InInputOrder(frame) ==
    \A k \in 1..Rows(frame) : \A l \in 1..Rows(frame) :
        k < l => PosOf(df, frame.index[k]) < PosOf(df, frame.index[l])

\* C15: clean_data and detect_outliers_zscore never reorder rows: two rows of
\* the cleaned frame, or of outlier_rows, stand in the order they have in
\* the input.
C15_RowOrderPreserved ==
    /\ Cleaned => InInputOrder(result.returned)
    /\ Detected => InInputOrder(result.outlier_rows)

\* a cleaning that keeps the rows around a dropped one
C15_Witness ==
    /\ Cleaned
    /\ Rows(df) > 2
    /\ result.returned.index = <<df.index[1], df.index[3]>>

\* a detection that flags two rows and not the row between them
C15_WitnessDetect ==
    /\ Detected
    /\ Rows(df) > 2
    /\ result.outlier_rows.index = <<df.index[1], df.index[3]>>

EmptySelection == call.columns.given /\ call.columns.names = <<>>

\* C17: an explicitly empty selection is a no-op: detect_outliers_zscore
\* flags no row (count 0, outlier_rows empty) and clean_data returns a frame
\* equal to its input; neither raises.
C17_EmptySelectionIsNoOp ==
    (EmptySelection /\ result.status # "none") =>
        /\ call.op = "detect_outliers_zscore" =>
              /\ result.status = "ok"
              /\ \A i \in 1..Rows(df) : ~result.outlier_mask[i]
              /\ result.outlier_count = 0
              /\ Rows(result.outlier_rows) = 0
        /\ call.op = "clean_data" =>
              /\ result.status = "ok"
              /\ result.returned = df

\* clean_data with an empty selection on a frame that has a missing numeric
\* cell and a row the default selection would drop
C17_Witness ==
    /\ Cleaned /\ EmptySelection
    /\ {"GHI", "DNI"} \subseteq DOMAIN df.data
    /\ \E i \in 1..Rows(df) : IsNa(df.data["GHI"][i])
    /\ \E i \in 1..Rows(df) : Exceeds(df.data["DNI"], i, call.threshold)

\* detect_outliers_zscore with an empty selection on such a frame
C17_WitnessDetect ==
    /\ Detected /\ EmptySelection
    /\ "DNI" \in DOMAIN df.data
    /\ \E i \in 1..Rows(df) : Exceeds(df.data["DNI"], i, call.threshold)

-----------------------------------------------------------------------------
C16_WitnessClean ==
    /\ memo.set /\ memo.others
    /\ call = memo.call
    /\ Cleaned
    /\ result.imputed # df
    /\ result = memo.result

-----------------------------------------------------------------------------
\* the file a call names is a file of the project
Named == PathOf(io.dir, io.filename)

\* C18: get_data_path returns a path only when the file exists under the
\* data directory (the path of that file); when it does not exist it raises
\* FileNotFoundError, and load_solar_data then raises the same error to its
\* caller, has read no file and returns no dataset.
C18_MissingFileRaises ==
    /\ io.op = "get_data_path" =>
          IF Named \in fs.files
          THEN io.result.status = "ok" /\ io.result.path = Named
          ELSE io.result.status = "FileNotFoundError" /\ DOMAIN io.result = {"status"}
    /\ (io.op = "load_solar_data" /\ Named \notin fs.files) =>
          /\ io.result.status = "FileNotFoundError"
          /\ DOMAIN io.result = {"status"}
          /\ io.reads = <<>>

\* load_solar_data asked for a file missing from a data directory that holds
\* other files
C18_Witness ==
    /\ io.op = "load_solar_data"
    /\ Named \notin fs.files
    /\ \E f \in fs.files : f.dir = io.dir
    /\ io.result.status = "FileNotFoundError"

\* get_data_path returning the path of an existing file
C18_WitnessFound ==
    /\ io.op = "get_data_path"
    /\ Named \in fs.files
    /\ io.result.status = "ok"

\* the name ends in '.csv'
EndsInCsv(name) == Len(name) > 0 /\ name[Len(name)] = ".csv"

\* the files get_dataset_info is to list: the .csv files of the data
\* directory whose stem does not contain 'clean'
RawDatasets ==
    {f \in fs.files :
        /\ f.dir = "data"
        /\ EndsInCsv(f.name)
        /\ \A i \in 1..(Len(f.name) - 1) : f.name[i] \notin {"clean", "_clean"}}

\* C19: get_dataset_info returns a mapping with one entry, file stem to file
\* name, for each .csv file of the data directory whose stem does not
\* contain 'clean', and no entry for any other file; the mapping is empty
\* when the data directory does not exist.
C19_DatasetInfoListsRawCsv ==
    io.op = "get_dataset_info" =>
        LET datasets == io.result.datasets
        IN  /\ io.result.status = "ok"
            /\ \A f \in RawDatasets :
                  /\ SubSeq(f.name, 1, Len(f.name) - 1) \in DOMAIN datasets
                  /\ datasets[SubSeq(f.name, 1, Len(f.name) - 1)] = f.name
            /\ \A k \in DOMAIN datasets :
                  /\ PathOf("data", datasets[k]) \in RawDatasets
                  /\ k \o <<".csv">> = datasets[k]
            /\ Cardinality(DOMAIN datasets) = Cardinality(RawDatasets)
            /\ "data" \notin fs.dirs => DOMAIN datasets = {}

\* a data directory with a raw dataset listed and a cleaned .csv and another
\* file not listed
C19_Witness ==
    /\ io.op = "get_dataset_info"
    /\ DOMAIN io.result.datasets # {}
    /\ \E f \in fs.files : f.dir = "data" /\ EndsInCsv(f.name) /\ f \notin RawDatasets
    /\ \E f \in fs.files : f.dir = "data" /\ ~EndsInCsv(f.name)

\* get_dataset_info without a data directory
C19_WitnessNoDirectory ==
    /\ io.op = "get_dataset_info"
    /\ "data" \notin fs.dirs
    /\ fs.dirs # {}

\* the name ends in '_clean.csv'
EndsInCleanCsv(name) ==
    /\ Len(name) > 1
    /\ name[Len(name) - 1] = "_clean"
    /\ name[Len(name)] = ".csv"

\* C20: save_cleaned_data adds the '_clean' suffix when it is not already
\* present: the name it writes ends in '_clean.csv' whenever the given name
\* ends in '.csv', and the written name given back as the file name is
\* written under the same name.
C20_WrittenNameEndsInCleanCsv ==
    io.op = "save_cleaned_data" =>
        LET name == io.result.path.name
        IN  /\ EndsInCsv(io.filename) => EndsInCleanCsv(name)
            /\ save_cleaned_data(fs, name, io.dir).path = io.result.path

\* What holds of the name written: it always contains '_clean', it is the
\* given name when that contains '_clean' anywhere, it ends in '_clean.csv'
\* otherwise, and it is a fixed point of the naming.
SavedNameContainsClean ==
    io.op = "save_cleaned_data" =>
        LET name == io.result.path.name
        IN  /\ \E i \in 1..Len(name) : name[i] = "_clean"
            /\ IF \E i \in 1..Len(io.filename) : io.filename[i] = "_clean"
               THEN name = io.filename
               ELSE EndsInCleanCsv(name)
            /\ save_cleaned_data(fs, name, io.dir).path = io.result.path
            /\ io.result.path \in fs.files

-----------------------------------------------------------------------------
\* C25: the output of clean_data is free of outliers under the same
\* settings: on the frame a clean_data call returned, detect_outliers_zscore
\* with the same columns and threshold reports outlier_count 0, and
\* clean_data with the same arguments returns the frame as it is.
C25_CleanOutputFreeOfOutliers ==
    reused =>
        /\ Detected => result.outlier_count = 0
        /\ Cleaned => result.returned = df

\* What holds instead: a second pass may flag rows again, because dropping
\* rows moves the mean and the deviation; when detection on the cleaned
\* frame flags nothing, cleaning it again with the same arguments returns it
\* as it is, and it never returns more rows than it was given.
C25_CleanTwiceWhenNoOutlierLeft ==
    (reused /\ Cleaned) =>
        /\ result.outlier_info.outlier_count = 0 => result.returned = df
        /\ result.outlier_info.outlier_count =
              detect_outliers_zscore(df, Cols(SelectedSeq(df)), call.threshold).outlier_count
        /\ Rows(result.returned) = Rows(df) - result.outlier_info.outlier_count

\* a second cleaning that found nothing to drop in a frame the first
\* cleaning had shortened and filled
C25_Witness ==
    /\ reused /\ Cleaned
    /\ result.outlier_info.outlier_count = 0
    /\ 0 < Rows(df) /\ Rows(df) < 4
    /\ result.returned = df

\* a second cleaning that dropped a row again
C25_WitnessSecondDrop ==
    /\ reused /\ Cleaned
    /\ 0 < Rows(result.returned)
    /\ Rows(result.returned) < Rows(df)

-----------------------------------------------------------------------------
\* C23: a save_cleaned_data call, whatever its file name and output
\* directory, leaves the mapping of get_dataset_info as it was; so the
\* mapping after any sequence of such calls is the mapping before it, and no
\* file save_cleaned_data wrote is listed as a raw dataset.
C23_SaveKeepsDatasetInfo ==
    [][ io'.op = "save_cleaned_data" =>
           /\ get_dataset_info(fs').datasets = get_dataset_info(fs).datasets
           /\ \A k \in DOMAIN get_dataset_info(fs').datasets :
                 PathOf("data", get_dataset_info(fs').datasets[k]) \notin written' ]_vars

\* get_dataset_info lists a raw dataset after save_cleaned_data has written
\* a .csv file into the data directory
C23_Witness ==
    /\ io.op = "get_dataset_info"
    /\ DOMAIN io.result.datasets # {}
    /\ \E f \in written : f.dir = "data" /\ EndsInCsv(f.name)

\* save_cleaned_data has made the data directory, which holds cleaned files
\* only: the mapping is as empty as before
C23_WitnessNewDirectory ==
    /\ io.op = "get_dataset_info"
    /\ DOMAIN io.result.datasets = {}
    /\ \E f \in written : f.dir = "data" /\ EndsInCsv(f.name)
    /\ \A f \in fs.files : f \in written

-----------------------------------------------------------------------------
\* the run has recorded an event of the kind
Did(ev) == \E i \in 1..Len(run.log) : run.log[i].ev = ev

\* C21: run_eda writes the cleaned dataset under the directory given by
\* --output-dir, the directory that receives the plots.
C21_CleanedFileUnderOutputDir ==
    \A i \in 1..Len(run.log) :
        run.log[i].ev = "saved" =>
            /\ run.log[i].path.dir = run.output_dir
            /\ \A j \in 1..Len(run.log) :
                  run.log[j].ev = "plot" => run.log[j].path.dir = run.log[i].path.dir

\* What holds: the plots go under --output-dir, the cleaned file always
\* under data, named after the raw file.
CleanedFileUnderData ==
    \A i \in 1..Len(run.log) :
        /\ run.log[i].ev = "plot" => run.log[i].path.dir = run.output_dir
        /\ run.log[i].ev = "saved" =>
              /\ run.log[i].path.dir = "data"
              /\ run.log[i].path.name =
                    SubSeq(run.filename, 1, Len(run.filename) - 1)
                        \o <<"_clean", ".csv">>
              /\ run.log[i].path \in fs.files

\* C22: in every run of run_eda a cleaned file is written only if a dataset
\* matched, it loaded without error and --skip-cleaning was not given; the
\* write comes after clean_data returned and before any plot. When no
\* dataset matches or the load fails, the run ends after the error message
\* with no cleaning, no cleaned file and no plot, and when no dataset
\* matches the output directory is not created.
C22_RunEdaOrder ==
    /\ \A i \in 1..Len(run.log) :
          run.log[i].ev = "saved" =>
              /\ run.matched /\ ~run.skip_cleaning
              /\ \E k \in 1..(i - 1) : run.log[k].ev = "loaded"
              /\ \E k \in 1..(i - 1) : run.log[k].ev = "cleaned"
              /\ \A j \in 1..Len(run.log) : run.log[j].ev = "plot" => i < j
    /\ (run.pc # "idle" /\ fs.files # run.fs0.files) => Did("saved")
    /\ Did("not_found") =>
          /\ Len(run.log) = 1
          /\ run.pc = "done"
          /\ fs = run.fs0
          /\ call.op = "none"
    /\ Did("load_error") =>
          /\ run.log[Len(run.log)].ev = "load_error"
          /\ run.pc = "done"
          /\ ~Did("cleaned") /\ ~Did("saved") /\ ~Did("plot")
          /\ fs.files = run.fs0.files
          /\ call.op = "none"

\* a run that cleaned, wrote the cleaned file and made a plot
C22_Witness ==
    /\ run.pc = "done"
    /\ Did("cleaned") /\ Did("saved") /\ Did("plot")

\* a run whose argument matched none of the datasets the data directory
\* holds: the output directory is not there
C22_WitnessNoMatch ==
    /\ Did("not_found")
    /\ fs.files # {}
    /\ run.output_dir \notin fs.dirs

\* a run whose load failed
C22_WitnessLoadError ==
    /\ Did("load_error")
    /\ ~run.skip_cleaning
    /\ run.output_dir \in fs.dirs

\* C24: after run_eda has cleaned each of the three raw datasets, the
\* dashboard's load_all_datasets finds a file for each of Benin, Sierra
\* Leone and Togo and returns three datasets.
C24_DashboardLoadsWhatRunEdaWrites ==
    (io.op = "load_all_datasets" /\ RawDatasetNames \subseteq run.cleaned) =>
        /\ DOMAIN io.result.datasets = {"Benin", "SierraLeone", "Togo"}
        /\ Cardinality(DOMAIN io.result.datasets) = 3

\* What holds: the files run_eda writes carry the whole raw name
\* (benin-malanville_clean.csv), none is a file the dashboard looks for, and
\* the dashboard loads no dataset.
DashboardFindsNoFileOfRunEda ==
    /\ \A f \in written : \A country \in DOMAIN country_files :
          f # PathOf("data", country_files[country])
    /\ io.op = "load_all_datasets" => DOMAIN io.result.datasets = {}

====
